---- MODULE Spec2Model ----
(***************************************************************************)
(* A model of ScopeReaders/em/tem/nion_reader.py: the ZIP index scan       *)
(* parse_zip, the NionReader life cycle (__init__, read, the accessors)    *)
(* and the axis classification set_dimensions / set_data_type.             *)
(*                                                                         *)
(* Three specifications share the module:                                  *)
(*   SpecZip / SpecZipFair  parse_zip stepping record by record over byte  *)
(*                          streams (one action per loop iteration kind);  *)
(*   SpecAxes               set_dimensions then set_data_type on datasets; *)
(*   Spec                   the reader: construction, read calls (each the *)
(*                          whole handler, parse_zip run to completion),   *)
(*                          accessors, and the file changing on disk.      *)
(*                                                                         *)
(* struct.unpack('I' / 'H') is modelled in little-endian byte order (the   *)
(* native order of the hosts the reader is run on).                        *)
(***************************************************************************)
EXTENDS Integers, Sequences, FiniteSets, TLC

VARIABLES
    stream,         \* the bytes of the file parse_zip scans (fp's content)
    input,          \* how the stream was built: its kind and its true layout
    fp,             \* fp.tell(): the stream position
    local_files,    \* parse_zip's local_files dict: offset -> entry
    dir_files,      \* parse_zip's dir_files dict: name -> <<pos, pos2>>
    eocd,           \* parse_zip's eocd: <<>> (None) or <<pos, pos2>>
    pc,             \* "scan" | "return" | "IOError" | "struct.error" | "idle"
    records,        \* record start offsets visited by the loop, in order
    result,         \* what parse_zip returned: <<>> (nothing) or the three structures
    dataset,        \* the sidpy Dataset set_dimensions / set_data_type work on
    apc,            \* "start" | "dims" | "typed" | the exception raised | "idle"
    file,           \* the file at the reader's path: its container and content
    reader,         \* the NionReader object: its state and its attributes
    outcome,        \* the last call: which, what it raised, what it returned
    lastgood        \* data_cube and original_metadata as the last read that
                    \* returned left them (as __init__ set them before any)

zvars == <<stream, input, fp, local_files, dir_files, eocd, pc, records, result>>
avars == <<dataset, apc>>
rvars == <<file, reader, outcome, lastgood>>

(***************************************************************************)
(* Bounds of the input domain.                                             *)
(***************************************************************************)
MaxExtra == 1
MaxComment == 1
MaxPayload == 4
MaxRank == 4

(***************************************************************************)
(* Program constants of parse_zip.                                         *)
(***************************************************************************)
\* 0x04034b50
LocalSig == 67324752
\* 0x02014b50
CentralSig == 33639248
\* 0x06054b50
EndSig == 101010256
LocalCrcAt == 14
LocalLenAt == 18
LocalNameLenAt == 26
CentralNameLenAt == 28
CentralOffsetAt == 42
CentralHeaderLen == 46
EndDirOffsetAt == 16

\* b"data.npy"
DataName == <<100, 97, 116, 97, 46, 110, 112, 121>>
\* b"metadata.json"
MetaName == <<109, 101, 116, 97, 100, 97, 116, 97, 46, 106, 115, 111, 110>>

Min(a, b) == IF a < b THEN a ELSE b

(***************************************************************************)
(* The file object and struct.unpack.                                      *)
(***************************************************************************)
\* fp.seek(at); fp.read(n): the bytes there are, fewer than n at the end of
\* the stream, none at or past it.
FRead(s, at, n) ==
    IF at >= Len(s) \/ n <= 0 THEN <<>> ELSE SubSeq(s, at + 1, Min(at + n, Len(s)))

\* struct.unpack('H', b)[0] and struct.unpack('I', b)[0]; unpack raises
\* struct.error unless b has exactly the format's size (Short2, Short4).
U16(b) == b[1] + 256 * b[2]
U32(b) == b[1] + 256 * b[2] + 65536 * b[3] + 16777216 * b[4]
Short2(b) == Len(b) # 2
Short4(b) == Len(b) # 4

\* struct.pack('<H', n), struct.pack('<I', n)
LE16(n) == <<n % 256, n \div 256>>
LE32(n) == <<n % 256, (n \div 256) % 256, (n \div 65536) % 256, n \div 16777216>>

(***************************************************************************)
(* One iteration of parse_zip's loop.                                      *)
(***************************************************************************)
\* Classify with a fault: an unknown signature ends the scan like an EOCD.
ClassifyLax(sigb) ==
    IF sigb = LE32(LocalSig) THEN "local"
    ELSE IF sigb = LE32(CentralSig) THEN "central"
    ELSE "eocd"

\* The if / elif / elif / else on the unpacked signature: the 4 bytes unpack
\* to sig exactly when they are sig's little-endian encoding.
Classify(sigb) ==
    IF sigb = LE32(LocalSig) THEN "local"
    ELSE IF sigb = LE32(CentralSig) THEN "central"
    ELSE IF sigb = LE32(EndSig) THEN "eocd"
    ELSE "unknown"

\* LocalDataPos with a fault: the extra field is not skipped.
LocalDataPosNoExtra(after_name, extra_len) == after_name

\* fp.seek(extra_len, os.SEEK_CUR); data_pos = fp.tell()
LocalDataPos(after_name, extra_len) == after_name + extra_len

\* CentralEnd with a fault: an absolute seek that forgets the record's start.
CentralEndNoPos(pos, name_len, extra_len, comment_len) ==
    name_len + extra_len + comment_len

\* fp.seek(pos + 46 + name_len + extra_len + comment_len)
CentralEnd(pos, name_len, extra_len, comment_len) ==
    pos + CentralHeaderLen + name_len + extra_len + comment_len

Raise(st, what) == [st EXCEPT !.pc = what]

\* signature == 0x04034b50
LocalBranch(s, st) ==
    LET pos == st.fp
        b_crc == FRead(s, pos + LocalCrcAt, 4)
        b_len == FRead(s, pos + LocalLenAt, 4)
        b_nl == FRead(s, pos + LocalNameLenAt, 2)
        b_el == FRead(s, pos + LocalNameLenAt + Len(b_nl), 2)
    IN  IF Short4(b_crc) \/ Short4(b_len) \/ Short2(b_nl) \/ Short2(b_el)
        THEN Raise(st, "struct.error")
        ELSE LET crc32 == U32(b_crc)
                 data_len == U32(b_len)
                 name_len == U16(b_nl)
                 extra_len == U16(b_el)
                 at_name == pos + LocalNameLenAt + Len(b_nl) + Len(b_el)
                 name_bytes == FRead(s, at_name, name_len)
                 data_pos == LocalDataPos(at_name + Len(name_bytes), extra_len)
             IN  [st EXCEPT
                     !.fp = data_pos + data_len,
                     !.local_files = (pos :> <<name_bytes, data_pos, data_len, crc32>>) @@ @]

\* signature == 0x02014b50
CentralBranch(s, st) ==
    LET pos == st.fp
        b_nl == FRead(s, pos + CentralNameLenAt, 2)
        b_el == FRead(s, pos + CentralNameLenAt + Len(b_nl), 2)
        b_cl == FRead(s, pos + CentralNameLenAt + Len(b_nl) + Len(b_el), 2)
        b_p2 == FRead(s, pos + CentralOffsetAt, 4)
    IN  IF Short2(b_nl) \/ Short2(b_el) \/ Short2(b_cl) \/ Short4(b_p2)
        THEN Raise(st, "struct.error")
        ELSE LET name_len == U16(b_nl)
                 extra_len == U16(b_el)
                 comment_len == U16(b_cl)
                 pos2 == U32(b_p2)
                 name_bytes == FRead(s, pos + CentralOffsetAt + Len(b_p2), name_len)
             IN  [st EXCEPT
                     !.fp = CentralEnd(pos, name_len, extra_len, comment_len),
                     !.dir_files = (name_bytes :> <<pos, pos2>>) @@ @]

\* signature == 0x06054b50
EndBranch(s, st) ==
    LET pos == st.fp
        b_p2 == FRead(s, pos + EndDirOffsetAt, 4)
    IN  IF Short4(b_p2)
        THEN Raise(st, "struct.error")
        ELSE [st EXCEPT !.fp = pos + EndDirOffsetAt + Len(b_p2),
                        !.eocd = <<pos, U32(b_p2)>>,
                        !.pc = "return"]

\* The kind of record the loop finds at position at: "short" when the 4
\* signature bytes are not all there (struct.error).
KindAt(s, at) ==
    LET sigb == FRead(s, at, 4)
    IN  IF Short4(sigb) THEN "short" ELSE Classify(sigb)

\* The body of `while True:` from the state st = [fp, local_files, dir_files,
\* eocd, pc].
Iteration(s, st) ==
    LET kind == KindAt(s, st.fp)
    IN  CASE kind = "short" -> Raise(st, "struct.error")
          [] kind = "local" -> LocalBranch(s, st)
          [] kind = "central" -> CentralBranch(s, st)
          [] kind = "eocd" -> EndBranch(s, st)
          [] OTHER -> Raise(st, "IOError")

\* local_files = {}; dir_files = {}; eocd = None; fp.seek(0)
ScanStart ==
    [fp |-> 0, local_files |-> <<>>, dir_files |-> <<>>, eocd |-> <<>>, pc |-> "scan"]

\* return local_files, dir_files, eocd (nothing is returned when it raises)
Returned(st) ==
    IF st.pc = "return" THEN <<st.local_files, st.dir_files, st.eocd>> ELSE <<>>

(***************************************************************************)
(* The dataset and its axes: set_dimensions and set_data_type.             *)
(***************************************************************************)
\* s contains sub (Python's `sub in s` on strings).
Contains(s, sub) ==
    \E i \in 1..(Len(s) - Len(sub) + 1) : SubSeq(s, i, i + Len(sub) - 1) = sub

\* ord and chr on the characters from 'a' (97) on.
AsciiFromA == "abcdefghijklmnopqrstuvwxyz{|}~"
Ord(c) == 96 + CHOOSE i \in 1..Len(AsciiFromA) : SubSeq(AsciiFromA, i, i) = c
Chr(n) == SubSeq(AsciiFromA, n - 96, n - 96)

\* Dimension(name, values, units=..., quantity=..., dimension_type=...)
Dimension(name, values, units, quantity, dimension_type) ==
    [name |-> name, values |-> values, units |-> units, quantity |-> quantity,
     dimension_type |-> dimension_type]

\* original_metadata as a mapping: which keys it has, and their values.
Dict(has_cal, cal, has_description, has_title, has_data_source) ==
    [has_cal |-> has_cal, dimensional_calibrations |-> cal,
     has_description |-> has_description, description_title |-> "described",
     has_title |-> has_title, title |-> "titled",
     has_data_source |-> has_data_source, data_source |-> "swift"]

\* {}
EmptyDict == Dict(FALSE, <<>>, FALSE, FALSE, FALSE)

\* Dataset.from_array(data_cube): one generic axis per dimension, named by the
\* alphabet, with the index positions as values.
FromArray(shape) ==
    [shape |-> shape,
     axes |-> [d \in 1..Len(shape) |->
                 Dimension(Chr(96 + d), [i \in 1..shape[d] |-> i - 1], "generic",
                           "generic", "UNKNOWN")],
     data_type |-> "UNKNOWN", title |-> "generic", source |-> "generic",
     quantity |-> "generic", units |-> "generic", modality |-> "generic",
     original_metadata |-> EmptyDict]

\* dataset.set_dimension(dim, dimension), dim counted from 0
SetDimensionAt(ds, dim, dimension) == [ds EXCEPT !.axes[dim + 1] = dimension]

\* (np.arange(extent) - offset) * scale
CalibratedValues(extent, offset, scale) ==
    [i \in 1..extent |-> ((i - 1) - offset) * scale]

\* UnitsRule with a fault: the 'nm' test comes before the reciprocal test.
UnitsRuleNmFirst(units) ==
    IF units = "eV" THEN "energy_loss"
    ELSE IF Contains(units, "eV") THEN "energy"
    ELSE IF Contains(units, "nm") THEN "spatial"
    ELSE IF Contains(units, "1/") \/ units \in {"mrad", "rad"} THEN "reciprocal"
    ELSE "none"

\* The if / elif chain on units, first match first.
UnitsRule(units) ==
    IF units = "eV" THEN "energy_loss"
    ELSE IF Contains(units, "eV") THEN "energy"
    ELSE IF Contains(units, "1/") \/ units \in {"mrad", "rad"} THEN "reciprocal"
    ELSE IF Contains(units, "nm") THEN "spatial"
    ELSE "none"

\* The loop `for dim in range(len(dic['dimensional_calibrations']))` from dim
\* on, with the two running names; dataset.shape[dim] raises IndexError when
\* there are more calibrations than dimensions.
RECURSIVE SetDimensionsFrom(_, _, _, _, _)
SetDimensionsFrom(ds, cal, dim, reciprocal_name, spatial_name) ==
    IF dim >= Len(cal) THEN [ds |-> ds, raised |-> ""]
    ELSE IF dim >= Len(ds.shape) THEN [ds |-> ds, raised |-> "IndexError"]
    ELSE
      LET units == cal[dim + 1].units
          values == CalibratedValues(ds.shape[dim + 1], cal[dim + 1].offset,
                                     cal[dim + 1].scale)
          rule == UnitsRule(units)
      IN  CASE rule = "energy_loss" ->
                 SetDimensionsFrom(
                   SetDimensionAt(ds, dim, Dimension("energy_loss", values, units,
                                                     "energy-loss", "spectral")),
                   cal, dim + 1, reciprocal_name, spatial_name)
            [] rule = "energy" ->
                 SetDimensionsFrom(
                   SetDimensionAt(ds, dim, Dimension("energy", values, units,
                                                     "energy", "spectral")),
                   cal, dim + 1, reciprocal_name, spatial_name)
            [] rule = "reciprocal" ->
                 SetDimensionsFrom(
                   SetDimensionAt(ds, dim, Dimension(reciprocal_name, values, units,
                                                     "reciprocal distance", "reciprocal")),
                   cal, dim + 1, Chr(Ord(reciprocal_name) + 1), spatial_name)
            [] rule = "spatial" ->
                 SetDimensionsFrom(
                   SetDimensionAt(ds, dim, Dimension(spatial_name, values, units,
                                                     "distance", "spatial")),
                   cal, dim + 1, reciprocal_name, Chr(Ord(spatial_name) + 1))
            [] OTHER -> SetDimensionsFrom(ds, cal, dim + 1, reciprocal_name, spatial_name)

\* set_dimensions(dataset), dic = dataset.original_metadata
SetDimensions(ds) ==
    LET dic == ds.original_metadata
    IN  IF dic.has_cal
        THEN SetDimensionsFrom(ds, dic.dimensional_calibrations, 0, "u", "x")
        ELSE [ds |-> ds, raised |-> ""]

\* RelabelFrame with a fault: the loop has no break and relabels every axis
\* that is not spatial.
RECURSIVE RelabelFrameNoBreak(_, _)
RelabelFrameNoBreak(ds, dim) ==
    IF dim >= Len(ds.axes) THEN ds
    ELSE IF ds.axes[dim + 1].dimension_type # "spatial"
    THEN RelabelFrameNoBreak(
           SetDimensionAt(ds, dim, Dimension("frame", ds.axes[dim + 1].values, "frame",
                                             "stack", "frame")), dim + 1)
    ELSE RelabelFrameNoBreak(ds, dim + 1)

\* for dim, axis in dataset.axes.items(): relabel the first axis that is not
\* spatial and break.
RECURSIVE RelabelFrame(_, _)
RelabelFrame(ds, dim) ==
    IF dim >= Len(ds.axes) THEN ds
    ELSE IF ds.axes[dim + 1].dimension_type # "spatial"
    THEN SetDimensionAt(ds, dim, Dimension("frame", ds.axes[dim + 1].values, "frame",
                                           "stack", "frame"))
    ELSE RelabelFrame(ds, dim + 1)

\* set_data_type(dataset)
SetDataType(ds) ==
    LET spectral_dim == \E d \in 1..Len(ds.axes) : ds.axes[d].dimension_type = "spectral"
        rank == Len(ds.shape)
    IN  IF rank > 3 THEN [ds |-> ds, raised |-> "NotImplementedError"]
        ELSE IF rank = 3 THEN
          IF spectral_dim
          THEN [ds |-> [ds EXCEPT !.data_type = "spectrum_image"], raised |-> ""]
          ELSE [ds |-> RelabelFrame([ds EXCEPT !.data_type = "image_stack"], 0),
                raised |-> ""]
        ELSE IF rank = 2 THEN
          [ds |-> [ds EXCEPT !.data_type =
                      IF spectral_dim THEN "spectrum_image" ELSE "image"],
           raised |-> ""]
        ELSE IF rank = 1 THEN
          [ds |-> [ds EXCEPT !.data_type =
                      IF spectral_dim THEN "spectrum" ELSE "line_plot"],
           raised |-> ""]
        ELSE [ds |-> ds, raised |-> ""]

(***************************************************************************)
(* SpecAxes: set_dimensions, then set_data_type, on a fresh dataset.       *)
(***************************************************************************)
\* The units the calibrations are drawn from; beyond three dimensions, from
\* the first three of them only.
AllUnits == <<"nm", "1/nm", "eV", "keV", "1/eV", "mrad", "rad", "urad", "um", "">>
UnitsOfRank(rank) == { AllUnits[i] : i \in 1..(IF rank > 3 THEN 3 ELSE Len(AllUnits)) }

\* The shape of the array of a rank: extents 2, 3, 4, ...
ShapeOfRank(rank) == [d \in 1..rank |-> d + 1]

OffsetScales == { <<0, 1>>, <<1, 2>> }

Calibrations(rank) ==
    { [d \in 1..rank |-> [units |-> us[d], offset |-> os[1], scale |-> d * os[2]]] :
        us \in [1..rank -> UnitsOfRank(rank)], os \in OffsetScales }

AxesInputs ==
    UNION { { [shape |-> ShapeOfRank(rank), dic |-> Dict(TRUE, cal, FALSE, FALSE, FALSE)] :
                cal \in Calibrations(rank) } : rank \in 1..MaxRank }
    \cup { [shape |-> ShapeOfRank(rank), dic |-> EmptyDict] : rank \in 1..MaxRank }

ZipIdle ==
    /\ stream = <<>> /\ input = <<>> /\ fp = 0 /\ local_files = <<>>
    /\ dir_files = <<>> /\ eocd = <<>> /\ pc = "idle" /\ records = <<>> /\ result = <<>>

AxesIdle == dataset = <<>> /\ apc = "idle"

ReaderIdle == file = <<>> /\ reader = <<>> /\ outcome = <<>> /\ lastgood = <<>>

InitAxes ==
    /\ \E in \in AxesInputs :
         dataset = [FromArray(in.shape) EXCEPT !.original_metadata = in.dic]
    /\ apc = "start"
    /\ ZipIdle
    /\ ReaderIdle

set_dimensions ==
    /\ apc = "start"
    /\ LET r == SetDimensions(dataset)
       IN  /\ dataset' = r.ds
           /\ apc' = IF r.raised = "" THEN "dims" ELSE r.raised
    /\ UNCHANGED <<zvars, rvars>>

set_data_type ==
    /\ apc = "dims"
    /\ LET r == SetDataType(dataset)
       IN  /\ dataset' = r.ds
           /\ apc' = IF r.raised = "" THEN "typed" ELSE r.raised
    /\ UNCHANGED <<zvars, rvars>>

NextAxes ==
    \/ set_dimensions
    \/ set_data_type

vars == <<zvars, avars, rvars>>

SpecAxes == InitAxes /\ [][NextAxes]_vars

(***************************************************************************)
(* The input domain: byte streams laid out as the ZIP format lays them     *)
(* out, written field by field (independently of the offsets parse_zip     *)
(* reads at), and damaged variants of them.                                *)
(***************************************************************************)
Fill(n, b) == [i \in 1..n |-> b]

\* A payload of n bytes; from 4 bytes on it starts with the bytes of an
\* end-of-central-directory signature.
PayloadBytes(n) == [i \in 1..n |-> <<80, 75, 5, 6>>[((i - 1) % 4) + 1]]

\* The CRC32 recorded for an entry (any 32-bit value; distinct per entry).
CrcOf(name, payload) == 16909060 + 256 * Len(name) + Len(payload)

\* An entry: its name, local extra-field length, payload, central extra-field
\* length and comment length.
Entry(name, extra, plen, cextra, comment) ==
    [name |-> name, extra |-> extra, payload |-> PayloadBytes(plen),
     crc |-> CrcOf(name, PayloadBytes(plen)), cextra |-> cextra, comment |-> comment]

LocalRecord(e) ==
    <<80, 75, 3, 4>> \o <<20, 0>> \o <<0, 0>> \o <<0, 0>> \o <<33, 66>> \o <<33, 80>>
    \o LE32(e.crc) \o LE32(Len(e.payload)) \o LE32(Len(e.payload))
    \o LE16(Len(e.name)) \o LE16(e.extra)
    \o e.name \o Fill(e.extra, 80) \o e.payload

CentralRecord(e, local_offset) ==
    <<80, 75, 1, 2>> \o <<20, 3>> \o <<20, 0>> \o <<0, 0>> \o <<0, 0>> \o <<33, 66>>
    \o <<33, 80>> \o LE32(e.crc) \o LE32(Len(e.payload)) \o LE32(Len(e.payload))
    \o LE16(Len(e.name)) \o LE16(e.cextra) \o LE16(e.comment)
    \o <<0, 0>> \o <<0, 0>> \o <<0, 0, 164, 129>> \o LE32(local_offset)
    \o e.name \o Fill(e.cextra, 75) \o Fill(e.comment, 80)

EndRecord(n, cd_size, cd_offset) ==
    <<80, 75, 5, 6>> \o <<0, 0>> \o <<0, 0>> \o LE16(n) \o LE16(n)
    \o LE32(cd_size) \o LE32(cd_offset) \o <<0, 0>>

RECURSIVE LocalPart(_)
LocalPart(es) ==
    IF es = <<>> THEN <<>> ELSE LocalRecord(Head(es)) \o LocalPart(Tail(es))

\* The offset of the i-th entry's local header: the lengths before it.
LocalOffset(es, i) == Len(LocalPart(SubSeq(es, 1, i - 1)))

RECURSIVE CentralPart(_, _)
CentralPart(es, i) ==
    IF i > Len(es) THEN <<>>
    ELSE CentralRecord(es[i], LocalOffset(es, i)) \o CentralPart(es, i + 1)

Archive(es) ==
    LocalPart(es) \o CentralPart(es, 1)
    \o EndRecord(Len(es), Len(CentralPart(es, 1)), Len(LocalPart(es)))

\* The start offsets of an archive's records: the local headers, the central
\* directory records, the end record.
RECURSIVE CentralOffsets(_, _, _)
CentralOffsets(es, i, at) ==
    IF i > Len(es) THEN <<at>>
    ELSE <<at>> \o CentralOffsets(es, i + 1, at + Len(CentralRecord(es[i], 0)))

RecordOffsets(es) ==
    [i \in 1..Len(es) |-> LocalOffset(es, i)] \o CentralOffsets(es, 1, Len(LocalPart(es)))

\* The true payload range of the i-th entry.
TrueStart(es, i) == LocalOffset(es, i) + 30 + Len(es[i].name) + es[i].extra
TrueRange(es, i) ==
    [start |-> TrueStart(es, i), len |-> Len(es[i].payload), crc |-> es[i].crc,
     header |-> LocalOffset(es, i)]

\* Well-formed store-only archives holding exactly data.npy and metadata.json,
\* in either order. The local extra-field lengths e1, e2 and the payload
\* lengths p1, p2 vary independently; an entry's central extra field has the
\* other entry's local length, so the two differ whenever e1 # e2.
WellFormedEntries ==
    { IF swap
        THEN <<Entry(MetaName, e2, p2, e1, MaxComment - c), Entry(DataName, e1, p1, e2, c)>>
        ELSE <<Entry(DataName, e1, p1, e2, c), Entry(MetaName, e2, p2, e1, MaxComment - c)>> :
        <<e1, e2, p1, p2, c, swap>> \in
          (0..MaxExtra) \X (0..MaxExtra) \X (0..MaxPayload) \X (0..MaxPayload)
          \X (0..MaxComment) \X BOOLEAN }

\* The archive the damaged streams are made from.
BaseEntries ==
    <<Entry(DataName, MaxExtra, MaxPayload, MaxExtra, MaxComment),
      Entry(MetaName, 0, 1, 0, MaxComment)>>

\* Well-formed archives that lack one or both of the required names.
OtherName == <<120, 46, 121>>
LackingEntries ==
    { <<>>,
      <<Entry(DataName, 0, 1, 0, 0)>>,
      <<Entry(MetaName, MaxExtra, 1, 0, 0)>>,
      <<Entry(OtherName, 0, 1, 0, 0), Entry(MetaName, 0, 0, 0, 0)>>,
      <<Entry(DataName, 0, 2, 0, 0), Entry(OtherName, 0, 1, 0, 0)>> }

\* Signatures that are none of the three: 0xDEADBEEF, the data-descriptor
\* signature 0x08074b50, zero.
BadSignatures == { <<239, 190, 173, 222>>, <<80, 75, 7, 8>>, <<0, 0, 0, 0>> }

Overwrite(s, at, b) == [i \in 1..Len(s) |-> IF i > at /\ i <= at + Len(b) THEN b[i - at] ELSE s[i]]

\* Length fields of the base archive overwritten: a stored length of 0 (the
\* scan then lands on the payload, which begins like an end record) or far
\* beyond the stream, name, extra-field and comment lengths of 65535.
Damages ==
    LET at == RecordOffsets(BaseEntries)
    IN  { <<at[1] + 18, <<0, 0, 0, 0>>>>, <<at[1] + 18, <<255, 255, 255, 0>>>>,
          <<at[1] + 26, <<255, 255>>>>, <<at[2] + 28, <<255, 255>>>>,
          <<at[3] + 28, <<255, 255>>>>, <<at[3] + 32, <<255, 255>>>>,
          <<at[4] + 30, <<255, 255>>>> }

Inputs ==
    { [kind |-> "wellformed", entries |-> es, bytes |-> Archive(es), cut |-> 0] :
        es \in WellFormedEntries }
    \cup { [kind |-> "lacking", entries |-> es, bytes |-> Archive(es), cut |-> 0] :
        es \in LackingEntries }
    \cup { [kind |-> "truncated", entries |-> BaseEntries,
            bytes |-> SubSeq(Archive(BaseEntries), 1, n), cut |-> n] :
        n \in 0..(Len(Archive(BaseEntries)) - 1) }
    \cup { [kind |-> "badsig", entries |-> BaseEntries,
            bytes |-> Overwrite(Archive(BaseEntries), RecordOffsets(BaseEntries)[k], sig),
            cut |-> k] :
        k \in 1..5, sig \in BadSignatures }
    \cup { [kind |-> "damaged", entries |-> BaseEntries,
            bytes |-> Overwrite(Archive(BaseEntries), d[1], d[2]), cut |-> d[1]] :
        d \in Damages }

(***************************************************************************)
(* SpecZip: parse_zip(fp), one action per kind of loop iteration.          *)
(***************************************************************************)
ScanState ==
    [fp |-> fp, local_files |-> local_files, dir_files |-> dir_files, eocd |-> eocd,
     pc |-> pc]

\* One pass through the loop body: the locals after it, the offset it started
\* at, and what parse_zip has returned if it ended.
Advance ==
    LET st == Iteration(stream, ScanState)
    IN  /\ fp' = st.fp
        /\ local_files' = st.local_files
        /\ dir_files' = st.dir_files
        /\ eocd' = st.eocd
        /\ pc' = st.pc
        /\ result' = Returned(st)
        /\ records' = Append(records, fp)
        /\ UNCHANGED <<stream, input, avars, rvars>>

InitZip ==
    /\ input \in Inputs
    /\ stream = input.bytes
    /\ fp = ScanStart.fp
    /\ local_files = ScanStart.local_files
    /\ dir_files = ScanStart.dir_files
    /\ eocd = ScanStart.eocd
    /\ pc = ScanStart.pc
    /\ records = <<>>
    /\ result = <<>>
    /\ AxesIdle
    /\ ReaderIdle

LocalFileHeader ==
    /\ pc = "scan"
    /\ KindAt(stream, fp) = "local"
    /\ Advance

CentralDirectoryHeader ==
    /\ pc = "scan"
    /\ KindAt(stream, fp) = "central"
    /\ Advance

EndOfCentralDirectory ==
    /\ pc = "scan"
    /\ KindAt(stream, fp) = "eocd"
    /\ Advance

UnknownSignature ==
    /\ pc = "scan"
    /\ KindAt(stream, fp) = "unknown"
    /\ Advance

ShortSignature ==
    /\ pc = "scan"
    /\ KindAt(stream, fp) = "short"
    /\ Advance


NextZip ==
    \/ LocalFileHeader
    \/ CentralDirectoryHeader
    \/ EndOfCentralDirectory
    \/ UnknownSignature
    \/ ShortSignature

SpecZip == InitZip /\ [][NextZip]_vars

\* The loop runs on: `while True` executes its next iteration.
SpecZipFair == SpecZip /\ WF_vars(NextZip)

(***************************************************************************)
(* Spec: the NionReader. Each call is one action, the whole handler.       *)
(***************************************************************************)
\* parse_zip(fp), run until it returns or raises.
RECURSIVE ScanFrom(_, _)
ScanFrom(s, st) == IF st.pc # "scan" THEN st ELSE ScanFrom(s, Iteration(s, st))

ParseZip(s) == ScanFrom(s, ScanStart)

\* os.path.splitext(file_name): <<root, ext>>, ext from the last dot on (empty
\* when there is none, or when only leading dots come before it).
SplitExt(file_name) ==
    LET dots == { i \in 1..Len(file_name) : SubSeq(file_name, i, i) = "." }
        last == CHOOSE i \in dots : \A j \in dots : j <= i
    IN  IF dots = {} \/ \A j \in 1..(last - 1) : j \in dots
        THEN <<file_name, "">>
        ELSE <<SubSeq(file_name, 1, last - 1), SubSeq(file_name, last, Len(file_name))>>

\* np.load(fp) with fp at position at: the array stored in the file when a
\* data.npy payload starts there, ValueError otherwise.
NpLoad(f, at) ==
    IF \E i \in 1..Len(f.entries) :
         /\ f.entries[i].name = DataName
         /\ TrueStart(f.entries, i) = at
         /\ at + Len(f.entries[i].payload) <= Len(f.bytes)
    THEN [raised |-> "", value |-> <<f.shape>>]
    ELSE [raised |-> "ValueError", value |-> <<>>]

\* json.loads(fp.read(json_len).decode("utf-8")) with fp at json_pos: the
\* mapping stored in the file when exactly the metadata.json payload is read,
\* JSONDecodeError otherwise.
JsonLoads(f, json_pos, json_len) ==
    IF \E i \in 1..Len(f.entries) :
         /\ f.entries[i].name = MetaName
         /\ TrueStart(f.entries, i) = json_pos
         /\ Len(f.entries[i].payload) = json_len
         /\ json_pos + json_len <= Len(f.bytes)
    THEN [raised |-> "", value |-> f.dic]
    ELSE [raised |-> "JSONDecodeError", value |-> EmptyDict]

Raised(rd, what) == [reader |-> rd, raised |-> what, value |-> <<>>]

\* __init__(file_path) on the file f.
InitCall(f) ==
    LET ext == SplitExt(f.path)[2]
        rd0 == [state |-> "ready", basename |-> SplitExt(f.path)[1], extension |-> ext,
                data_cube |-> <<>>, original_metadata |-> EmptyDict, f |-> "none"]
        failed == [rd0 EXCEPT !.state = "failed", !.f = "open"]
    IN  IF ext = ".ndata" THEN
          LET st == ParseZip(f.bytes)
          IN  IF st.pc = "IOError" THEN Raised(failed, "IOError")
              ELSE IF st.pc = "struct.error" THEN Raised(failed, "struct.error")
              ELSE Raised([rd0 EXCEPT !.f = "closed"], "")
        ELSE IF ext = ".h5" THEN
          IF ~f.has_data THEN Raised(failed, "IOError")
          ELSE Raised([rd0 EXCEPT !.f = "closed"], "")
        ELSE Raised(rd0, "")

\* read, the `.ndata` branch: what it leaves in the reader and what it raises.
ReadNdata(rd, f) ==
    LET opened == [rd EXCEPT !.f = "open"]
        st == ParseZip(f.bytes)
    IN  IF st.pc # "return" THEN [reader |-> opened, raised |-> st.pc]
        ELSE
          LET local == st.local_files
              dir == st.dir_files
          IN  IF DataName \notin DOMAIN dir THEN [reader |-> opened, raised |-> "KeyError"]
              ELSE IF dir[DataName][2] \notin DOMAIN local
              THEN [reader |-> opened, raised |-> "KeyError"]
              ELSE
                LET npy == NpLoad(f, local[dir[DataName][2]][2])
                    loaded == [opened EXCEPT !.data_cube = npy.value]
                IN  IF npy.raised # "" THEN [reader |-> opened, raised |-> npy.raised]
                    ELSE IF MetaName \notin DOMAIN dir
                    THEN [reader |-> loaded, raised |-> "KeyError"]
                    ELSE IF dir[MetaName][2] \notin DOMAIN local
                    THEN [reader |-> loaded, raised |-> "KeyError"]
                    ELSE
                      LET json_pos == local[dir[MetaName][2]][2]
                          json_len == local[dir[MetaName][2]][3]
                          json == JsonLoads(f, json_pos, json_len)
                      IN  IF json.raised # ""
                          THEN [reader |-> loaded, raised |-> json.raised]
                          ELSE [reader |-> [loaded EXCEPT !.original_metadata = json.value,
                                                          !.f = "closed"],
                                raised |-> ""]

\* read, the `.h5` branch; self.__f is not closed.
ReadH5(rd, f) ==
    LET opened == [rd EXCEPT !.f = "open"]
    IN  IF ~f.has_data THEN [reader |-> opened, raised |-> ""]
        ELSE
          LET loaded == [opened EXCEPT !.data_cube = <<f.shape>>]
          IN  IF ~f.has_properties
              THEN [reader |-> loaded, raised |-> "JSONDecodeError"]
              ELSE [reader |-> [loaded EXCEPT !.original_metadata = f.dic], raised |-> ""]

\* for dim in ...['dimensional_calibrations']: if dim['units'] == '': 'pixels'
BackfillPixels(dic) ==
    [dic EXCEPT !.dimensional_calibrations =
        [d \in 1..Len(@) |-> IF @[d].units = "" THEN [@[d] EXCEPT !.units = "pixels"]
                                                ELSE @[d]]]

\* The title: description.title, else title, else the file's base name.
TitleOf(dic, path) ==
    IF dic.has_description THEN dic.description_title
    ELSE IF dic.has_title THEN dic.title
    ELSE SplitExt(path)[1]

SourceOf(dic) == IF dic.has_data_source THEN dic.data_source ELSE "NionReader"

\* read from Dataset.from_array on, the array given.
Assemble(rd, shape) ==
    LET dic == BackfillPixels(rd.original_metadata)
        rd1 == [rd EXCEPT !.original_metadata = dic]
        ds0 == [FromArray(shape) EXCEPT
                  !.original_metadata = dic, !.quantity = "intensity", !.units = "counts",
                  !.title = TitleOf(dic, rd.basename \o rd.extension),
                  !.source = SourceOf(dic)]
        dims == SetDimensions(ds0)
        typed == SetDataType(dims.ds)
    IN  IF dims.raised # "" THEN Raised(rd1, dims.raised)
        ELSE IF typed.raised # "" THEN Raised(rd1, typed.raised)
        ELSE [reader |-> rd1, raised |-> "",
              value |-> <<[typed.ds EXCEPT !.modality = "generic"]>>]

\* read(): every way the call can end. With data_cube still None,
\* Dataset.from_array(None) is sidpy's to decide: it raises, or wraps None in
\* a dataset of no dimensions.
ReadCall(rd, f) ==
    LET got == IF rd.extension = ".ndata" THEN ReadNdata(rd, f)
               ELSE IF rd.extension = ".h5" THEN ReadH5(rd, f)
               ELSE [reader |-> rd, raised |-> ""]
    IN  IF got.raised # "" THEN { Raised(got.reader, got.raised) }
        ELSE IF got.reader.data_cube = <<>>
        THEN { Raised(got.reader, "TypeError"), Assemble(got.reader, <<>>) }
        ELSE { Assemble(got.reader, got.reader.data_cube[1]) }

\* The files a reader is pointed at.
File(path, kind, bytes, entries, has_data, has_properties, shape, dic) ==
    [path |-> path, kind |-> kind, bytes |-> bytes, entries |-> entries,
     has_data |-> has_data, has_properties |-> has_properties, shape |-> shape,
     dic |-> dic]

\* The calibration units of the files' metadata, by dimension.
FileUnits == <<"nm", "", "1/nm", "eV", "um">>

FileDicts(rank) ==
    { EmptyDict,
      Dict(TRUE, [d \in 1..rank |-> [units |-> FileUnits[((d - 1) % Len(FileUnits)) + 1],
                                     offset |-> 0, scale |-> 1]],
           FALSE, TRUE, TRUE) }

Contents ==
    UNION { { <<ShapeOfRank(rank), dic>> : dic \in FileDicts(rank) } : rank \in 1..MaxRank }

ReaderCuts ==
    { 0, TrueStart(BaseEntries, 1) + 1, Len(Archive(BaseEntries)) - 1 }

NdataFiles ==
    { File("scan.ndata", "wellformed", Archive(BaseEntries), BaseEntries, FALSE, FALSE,
           c[1], c[2]) : c \in Contents }
    \cup { File("scan.ndata", "lacking", Archive(es), es, FALSE, FALSE, ShapeOfRank(2),
                EmptyDict) : es \in LackingEntries }
    \cup { File("scan.ndata", "truncated", SubSeq(Archive(BaseEntries), 1, n), BaseEntries,
                FALSE, FALSE, ShapeOfRank(2), EmptyDict) : n \in ReaderCuts }
    \cup { File("scan.ndata", "badsig",
                Overwrite(Archive(BaseEntries), RecordOffsets(BaseEntries)[k],
                          <<239, 190, 173, 222>>),
                BaseEntries, FALSE, FALSE, ShapeOfRank(2), EmptyDict) : k \in {1, 4} }

H5Files ==
    { File("cube.h5", "h5", <<>>, <<>>, TRUE, TRUE, c[1], c[2]) : c \in Contents }
    \cup { File("cube.h5", "h5", <<>>, <<>>, TRUE, FALSE, ShapeOfRank(2), EmptyDict),
           File("cube.h5", "h5", <<>>, <<>>, FALSE, FALSE, <<>>, EmptyDict) }

OtherFiles ==
    { File("notes.txt", "other", <<>>, <<>>, FALSE, FALSE, <<>>, EmptyDict) }

Files == NdataFiles \cup H5Files \cup OtherFiles

NoCall == [call |-> "none", raised |-> "", value |-> <<>>]

Init ==
    /\ file \in Files
    /\ reader = [state |-> "new", basename |-> "", extension |-> "", data_cube |-> <<>>,
                 original_metadata |-> EmptyDict, f |-> "none"]
    /\ outcome = NoCall
    /\ lastgood = [data_cube |-> <<>>, original_metadata |-> EmptyDict]
    /\ ZipIdle
    /\ AxesIdle

\* NionReader(file_path)
Construct ==
    /\ reader.state \in {"new", "failed"}
    /\ LET r == InitCall(file)
       IN  /\ reader' = r.reader
           /\ outcome' = [call |-> "__init__", raised |-> r.raised, value |-> <<>>]
           /\ lastgood' = [data_cube |-> r.reader.data_cube,
                           original_metadata |-> r.reader.original_metadata]
    /\ UNCHANGED <<file, zvars, avars>>

\* reader.read()
read ==
    /\ reader.state = "ready"
    /\ \E r \in ReadCall(reader, file) :
         /\ reader' = r.reader
         /\ outcome' = [call |-> "read", raised |-> r.raised, value |-> r.value]
         /\ lastgood' = IF r.raised = ""
                        THEN [data_cube |-> r.reader.data_cube,
                              original_metadata |-> r.reader.original_metadata]
                        ELSE lastgood
    /\ UNCHANGED <<file, zvars, avars>>

\* reader.filename
get_filename ==
    /\ reader.state = "ready"
    /\ outcome' = [call |-> "get_filename", raised |-> "",
                   value |-> <<reader.basename \o reader.extension>>]
    /\ UNCHANGED <<file, reader, lastgood, zvars, avars>>

\* reader.data: get_raw returns self.data, the property get_raw itself is the
\* getter of, and recurses until RecursionError.
get_raw ==
    /\ reader.state = "ready"
    /\ outcome' = [call |-> "get_raw", raised |-> "RecursionError", value |-> <<>>]
    /\ UNCHANGED <<file, reader, lastgood, zvars, avars>>

\* reader.tags
get_tags ==
    /\ reader.state = "ready"
    /\ outcome' = [call |-> "get_tags", raised |-> "", value |-> <<reader.original_metadata>>]
    /\ UNCHANGED <<file, reader, lastgood, zvars, avars>>

\* The file at the path is replaced between two calls.
WriteFile ==
    /\ \E f \in Files :
         /\ f.path = file.path
         /\ f # file
         /\ file' = f
    /\ outcome' = NoCall
    /\ UNCHANGED <<reader, lastgood, zvars, avars>>

Next ==
    \/ Construct
    \/ read
    \/ get_filename
    \/ get_raw
    \/ get_tags
    \/ WriteFile

Spec == Init /\ [][Next]_vars

(***************************************************************************)
(* Claims about parse_zip (checked under SpecZip / SpecZipFair).           *)
(***************************************************************************)
Ended == pc \in {"return", "IOError", "struct.error"}

\* The three record signatures as they lie in a stream: "PK\3\4", "PK\1\2",
\* "PK\5\6".
KnownSignatureBytes == { <<80, 75, 3, 4>>, <<80, 75, 1, 2>>, <<80, 75, 5, 6>> }

\* What read does with the index: local_files[dir_files[name][1]].
Resolved(index, name) == index[1][index[2][name][2]]

Resolves(index, name) ==
    /\ name \in DOMAIN index[2]
    /\ index[2][name][2] \in DOMAIN index[1]

Disjoint(s1, l1, s2, l2) == s1 + l1 <= s2 \/ s2 + l2 <= s1

\* C1: on every well-formed store-only archive holding exactly data.npy and
\* metadata.json the scan returns, and the returned maps resolve each of the
\* two names, through dir_files[name][1], to a local-file entry whose data
\* start, data length and CRC32 are the entry's true payload range and its
\* recorded CRC32 (the bytes there are the payload); the two ranges do not
\* overlap.
C1_WellFormedResolves ==
    (input.kind = "wellformed" /\ Ended) =>
        /\ pc = "return"
        /\ \A i \in 1..2 :
             LET name == input.entries[i].name
                 t == TrueRange(input.entries, i)
             IN  /\ Resolves(result, name)
                 /\ Resolved(result, name)[1] = name
                 /\ Resolved(result, name)[2] = t.start
                 /\ Resolved(result, name)[3] = t.len
                 /\ Resolved(result, name)[4] = t.crc
                 /\ FRead(stream, Resolved(result, name)[2], Resolved(result, name)[3])
                      = input.entries[i].payload
        /\ Resolves(result, DataName) /\ Resolves(result, MetaName)
        /\ Disjoint(Resolved(result, DataName)[2], Resolved(result, DataName)[3],
                    Resolved(result, MetaName)[2], Resolved(result, MetaName)[3])

\* C1's case: a well-formed archive with extra fields, comments and payloads
\* of different non-zero lengths, metadata.json stored first, scanned to its
\* end record.
C1_Witness ==
    /\ input.kind = "wellformed"
    /\ pc = "return"
    /\ input.entries[1].name = MetaName
    /\ input.entries[1].extra > 0 /\ input.entries[1].cextra > 0
    /\ input.entries[2].comment > 0
    /\ Len(input.entries[1].payload) = MaxPayload
    /\ Len(input.entries[2].payload) = 1
    /\ Resolved(result, DataName)[2] > Resolved(result, MetaName)[2]

\* C2: whenever the 4 bytes read at a record boundary are none of the three
\* signatures, that iteration raises IOError and parse_zip returns nothing,
\* whatever was parsed before.
C2_UnknownSignatureRaises ==
    [][ (/\ pc = "scan"
         /\ Len(FRead(stream, fp, 4)) = 4
         /\ FRead(stream, fp, 4) \notin KnownSignatureBytes)
        => (pc' = "IOError" /\ result' = <<>> /\ records' = Append(records, fp)) ]_vars

\* C2's case: 0xDEADBEEF met at a record boundary after local-file and
\* central-directory records were parsed.
C2_Witness ==
    /\ pc = "IOError"
    /\ Len(records) >= 4
    /\ FRead(stream, records[Len(records)], 4) = <<239, 190, 173, 222>>
    /\ DOMAIN local_files # {}
    /\ DOMAIN dir_files # {}

\* C4: on a stream that ends inside a record parse_zip fails; no registered
\* local-file entry has a name or a byte range reaching past the end of the
\* stream, and the position is never past the end unless the scan has failed.
C4_TruncatedFailsInBounds ==
    /\ (input.kind = "truncated" /\ Ended) => pc \in {"IOError", "struct.error"}
    /\ \A k \in DOMAIN local_files :
         local_files[k][2] + local_files[k][3] <= Len(stream)
    /\ (pc = "scan" => fp <= Len(stream))

\* C10: an iteration that recognises a local-file-header or central-directory
\* record leaves the position beyond the record's start; the offsets visited
\* increase strictly; a scan that returns has stopped at the first
\* end-of-central-directory signature it met, with a result; and every scan
\* ends, returning or raising.
C10_ScanAdvancesAndEnds ==
    /\ [][ (pc = "scan" /\ pc' = "scan") => fp' > fp ]_vars
    /\ [](\A i \in 1..(Len(records) - 1) : records[i] < records[i + 1])
    /\ [](pc = "return" =>
            /\ result # <<>>
            /\ \A i \in 1..Len(records) :
                 (KindAt(stream, records[i]) = "eocd") <=> (i = Len(records)))
    /\ <>Ended

\* C10's case: a scan that visited all five records of an archive whose
\* fields are non-zero and returned.
C10_Witness ==
    /\ pc = "return"
    /\ Len(records) = 5
    /\ input.kind = "wellformed"
    /\ input.entries[1].extra > 0 /\ input.entries[1].comment > 0
    /\ Len(input.entries[1].payload) > 0

(***************************************************************************)
(* Claims about set_dimensions and set_data_type (checked under SpecAxes). *)
(***************************************************************************)
\* The unit tests of the claim, each excluding the ones before it.
IsEnergyLoss(u) == u = "eV"
IsEnergy(u) == u # "eV" /\ Contains(u, "eV")
IsReciprocal(u) == ~Contains(u, "eV") /\ (Contains(u, "1/") \/ u = "mrad" \/ u = "rad")
IsSpatial(u) == ~Contains(u, "eV") /\ ~IsReciprocal(u) /\ Contains(u, "nm")

\* How many of the dimensions before d the test holds of.
ReciprocalBefore(cal, d) == Cardinality({ j \in 1..(d - 1) : IsReciprocal(cal[j].units) })
SpatialBefore(cal, d) == Cardinality({ j \in 1..(d - 1) : IsSpatial(cal[j].units) })

\* C6: after set_dimensions every calibrated dimension is classified by the
\* first matching rule (units 'eV': spectral, energy_loss; containing 'eV':
\* spectral, energy; containing '1/' or equal to 'mrad' or 'rad': reciprocal;
\* containing 'nm': spatial; else left as it was); the k-th reciprocal axis is
\* named the k-th character from 'u' and the k-th spatial axis the k-th from
\* 'x', each counting only the axes of its own type.
C6_AxesClassifiedInOrder ==
    (apc = "dims" /\ dataset.original_metadata.has_cal) =>
        \A d \in 1..Len(dataset.original_metadata.dimensional_calibrations) :
            LET cal == dataset.original_metadata.dimensional_calibrations
                u == cal[d].units
                axis == dataset.axes[d]
            IN  /\ IsEnergyLoss(u) =>
                     axis.dimension_type = "spectral" /\ axis.name = "energy_loss"
                /\ IsEnergy(u) =>
                     axis.dimension_type = "spectral" /\ axis.name = "energy"
                /\ IsReciprocal(u) =>
                     /\ axis.dimension_type = "reciprocal"
                     /\ axis.name = Chr(Ord("u") + ReciprocalBefore(cal, d))
                /\ IsSpatial(u) =>
                     /\ axis.dimension_type = "spatial"
                     /\ axis.name = Chr(Ord("x") + SpatialBefore(cal, d))
                /\ (~Contains(u, "eV") /\ ~IsReciprocal(u) /\ ~IsSpatial(u)) =>
                     axis = FromArray(dataset.shape).axes[d]

\* C6's case: units 'nm', '1/nm', 'nm' classified and named x, u, y.
C6_Witness ==
    /\ apc = "dims"
    /\ Len(dataset.axes) = 3
    /\ dataset.original_metadata.has_cal
    /\ [d \in 1..3 |-> dataset.original_metadata.dimensional_calibrations[d].units]
         = <<"nm", "1/nm", "nm">>
    /\ [d \in 1..3 |-> dataset.axes[d].name] = <<"x", "u", "y">>
    /\ dataset.axes[2].dimension_type = "reciprocal"

NoSpectralAxis(ds) == \A d \in 1..Len(ds.axes) : ds.axes[d].dimension_type # "spectral"

\* C7: set_data_type on a 3-D dataset with no spectral axis sets data_type
\* 'image_stack' and relabels exactly the first axis that is not spatial to
\* frame / frame / frame / stack with its values unchanged; every other axis
\* is kept, and with three spatial axes none is relabeled.
C7_ImageStackRelabelsFirst ==
    [][ (apc = "dims" /\ Len(dataset.shape) = 3 /\ NoSpectralAxis(dataset)) =>
          /\ apc' = "typed"
          /\ dataset'.data_type = "image_stack"
          /\ IF \A d \in 1..3 : dataset.axes[d].dimension_type = "spatial"
             THEN dataset'.axes = dataset.axes
             ELSE \E f \in 1..3 :
                    /\ dataset.axes[f].dimension_type # "spatial"
                    /\ \A j \in 1..(f - 1) : dataset.axes[j].dimension_type = "spatial"
                    /\ dataset'.axes[f] =
                         [name |-> "frame", values |-> dataset.axes[f].values,
                          units |-> "frame", quantity |-> "stack",
                          dimension_type |-> "frame"]
                    /\ \A j \in (1..3) \ {f} : dataset'.axes[j] = dataset.axes[j]
      ]_vars

\* C7's case: an image stack whose second axis became the frame axis while
\* the reciprocal third axis, also not spatial, was kept.
C7_Witness ==
    /\ apc = "typed"
    /\ dataset.data_type = "image_stack"
    /\ dataset.axes[1].dimension_type = "spatial"
    /\ dataset.axes[2].dimension_type = "frame"
    /\ dataset.axes[2].values # [i \in 1..3 |-> i - 1]
    /\ dataset.axes[3].dimension_type = "reciprocal"

(***************************************************************************)
(* Claims about the reader (checked under Spec).                           *)
(***************************************************************************)
\* C3: a read of a .ndata file whose scan reaches the end record but whose
\* central directory lacks data.npy or metadata.json (the constructor having
\* accepted the file) raises the format-mismatch error, the IOError this
\* reader raises for a file that is not of Nion's format, and returns no
\* dataset.
C3_MissingEntrySignalled ==
    (outcome.call = "read" /\ file.kind = "lacking") =>
        outcome.raised = "IOError" /\ outcome.value = <<>>

\* C5: a read that raises returns no dataset, and after every call the raw
\* array and the original metadata the reader holds, which its accessors are
\* there to yield, are those of the most recent read that returned.
C5_FailedReadLeavesNoPartialState ==
    /\ (outcome.call = "read" /\ outcome.raised # "") => outcome.value = <<>>
    /\ reader.state = "ready" =>
         /\ reader.data_cube = lastgood.data_cube
         /\ reader.original_metadata = lastgood.original_metadata
    /\ outcome.call = "get_tags" => outcome.value = <<lastgood.original_metadata>>

\* C8: a reader exists only for a path whose extension is .ndata or .h5.
C8_ExtensionRejected ==
    reader.state = "ready" => reader.extension \in {".ndata", ".h5"}

\* C9: when a read call has ended, returning or raising, the stream it
\* opened is closed.
C9_ReadClosesItsStream ==
    outcome.call = "read" => reader.f # "open"

====
